---------------------------- MODULE Spec2Model ----------------------------
(***************************************************************************)
(* Model of src/app.py: the Flask endpoint /processar_documento and its    *)
(* two stages, extrair_exames_do_documento (OCR geometry -> ordered list   *)
(* of selected exam names) and obter_mnemonicos_com_nlp (list -> text).    *)
(*                                                                         *)
(* Encodings.                                                              *)
(*  - A Python value that may be None is a sequence of length 0 (None) or  *)
(*    1 (the value): dict.get(k) of an absent key is <<>>.                 *)
(*  - A Python str whose characters matter (document.content, the          *)
(*    resolver's answer) is a sequence of one-character strings; the       *)
(*    non-ASCII character e-acute is written "U+00E9".                     *)
(*  - Coordinates are integers; the score dist_y + dist_x / 10 is kept     *)
(*    scaled by 10 (10 * dist_y + dist_x) and pos_x < width / 2 is         *)
(*    2 * pos_x < width, which compare exactly as the rationals do.        *)
(***************************************************************************)
EXTENDS Integers, Sequences, FiniteSets, TLC

VARIABLES
    config,           \* module globals of lines 18-25, loaded once
    pc,               \* per request: position of its handler
    body,             \* per request: the JSON body (request.get_json())
    image,            \* per request: <<>> or <<[image_bytes, content_type]>>
    ocr,              \* per request: the LayoutSource call made for it
    frame,            \* per request: <<>> or <<locals of extrair_exames_do_documento>>
    lista_de_exames,  \* per request: the handler's local lista_de_exames
    nlp,              \* per request: the MnemonicResolver call made for it
    resultado_final,  \* per request: <<>> or <<outcome of obter_mnemonicos_com_nlp>>
    resp              \* per request: the HTTP response, code 0 while none is sent

vars == <<config, pc, body, image, ocr, frame, lista_de_exames, nlp,
          resultado_final, resp>>

---------------------------------------------------------------------------
(* Bounds of the model. *)

MaxContent == 4      \* longest document.content, in characters
MaxMarks == 2        \* most selection marks on a page
MaxLines == 2        \* most text lines on a page
MaxText == 3         \* longest resolver answer, in characters
NumRequests == 2     \* requests in flight in the concurrent specification

---------------------------------------------------------------------------
(* Small helpers over sequences. *)

SeqsUpTo(S, n) == UNION {[1..k -> S] : k \in 0..n}

Some(v) == <<v>>
None == <<>>

Abs(n) == IF n < 0 THEN -n ELSE n

---------------------------------------------------------------------------
(* base64.b64decode(s) of a str, validate=False (line 166).                *)
(* Lib/base64.py: a str is first encoded to ASCII, a non-ASCII character   *)
(* raising ValueError; then binascii.a2b_base64 runs in non-strict mode:   *)
(* characters outside the alphabet are skipped, a completed pad sequence   *)
(* ends the parse, and a quad left open at the end is binascii.Error.      *)

B64Alphabet == {"A", "B"}
B64Pad == "="
NonAscii == {"U+00E9"}

B64Value(c) == IF c = "A" THEN 0 ELSE 1

A2bInit == [quad_pos |-> 0, leftchar |-> 0, pad_count |-> 0, out |-> <<>>,
            done |-> FALSE]

A2bStep(st, c) ==
    IF st.done THEN st
    ELSE IF c = B64Pad THEN
        IF st.quad_pos >= 2 /\ st.quad_pos + st.pad_count + 1 >= 4
        THEN [st EXCEPT !.pad_count = @ + 1, !.done = TRUE]
        ELSE IF st.quad_pos >= 2 THEN [st EXCEPT !.pad_count = @ + 1]
        ELSE st
    ELSE IF c \notin B64Alphabet THEN st
    ELSE LET v == B64Value(c) IN
        CASE st.quad_pos = 0 ->
                [st EXCEPT !.pad_count = 0, !.quad_pos = 1, !.leftchar = v]
          [] st.quad_pos = 1 ->
                [st EXCEPT !.pad_count = 0, !.quad_pos = 2,
                           !.out = Append(@, (st.leftchar * 4 + v \div 16) % 256),
                           !.leftchar = v % 16]
          [] st.quad_pos = 2 ->
                [st EXCEPT !.pad_count = 0, !.quad_pos = 3,
                           !.out = Append(@, (st.leftchar * 16 + v \div 4) % 256),
                           !.leftchar = v % 4]
          [] OTHER ->
                [st EXCEPT !.pad_count = 0, !.quad_pos = 0,
                           !.out = Append(@, (st.leftchar * 64 + v) % 256),
                           !.leftchar = 0]

RECURSIVE A2bScan(_, _)
A2bScan(st, s) == IF s = <<>> THEN st ELSE A2bScan(A2bStep(st, Head(s)), Tail(s))

\* [raised |-> "" | "ValueError" | "binascii.Error", bytes |-> decoded bytes]
b64decode(s) ==
    IF \E i \in 1..Len(s) : s[i] \in NonAscii
    THEN [raised |-> "ValueError", bytes |-> <<>>]
    ELSE LET st == A2bScan(A2bInit, s) IN
         IF ~st.done /\ st.quad_pos # 0
         THEN [raised |-> "binascii.Error", bytes |-> <<>>]
         ELSE [raised |-> "", bytes |-> st.out]

\* content_type of line 167
ContentTypeOf(doc_type) == IF doc_type # "pdf" THEN <<"image/", doc_type>>
                           ELSE <<"application/pdf">>


---------------------------------------------------------------------------
(* The JSON body and its validation (lines 147-169).                       *)

AttendantIds == {"", "att-1", "att-2"}
PixeonIds == {"", "pix-1"}
DocTypes == {"", "png", "pdf"}
ContentChars == B64Alphabet \cup {B64Pad, "!"} \cup NonAscii

Opt(S) == {None} \cup {Some(v) : v \in S}

\* document: {type, content}, either key possibly absent
Documents(contents) == [type : Opt(DocTypes), content : Opt(contents)]

\* the body: {attendant_id, pixeon_id, document}, each key possibly absent
BodiesOver(contents) ==
    [attendant_id : Opt(AttendantIds), pixeon_id : Opt(PixeonIds),
     document : Opt(Documents(contents))]

Bodies == BodiesOver(SeqsUpTo(ContentChars, MaxContent))

\* `not data` (line 148): the empty JSON object
IsEmptyJson(data) ==
    data.attendant_id = None /\ data.pixeon_id = None /\ data.document = None

\* truth value of dict.get(k) for a str value, and for the document dict
TruthyStr(o) == o # None /\ o[1] # ""
TruthySeq(o) == o # None /\ o[1] # <<>>
TruthyDoc(o) == o # None /\ ~(o[1].type = None /\ o[1].content = None)

\* all([attendant_id, pixeon_id, document]) of line 155
HasRequiredFields(data) ==
    TruthyStr(data.attendant_id) /\ TruthyStr(data.pixeon_id)
        /\ TruthyDoc(data.document)

\* all([doc_type, doc_content_b64]) of line 161
HasDocumentFields(document) ==
    TruthyStr(document.type) /\ TruthySeq(document.content)

\* faulty variant of ErrorResponse: the message without str(e)
ErrorResponseNoDetail(code, text, detail) ==
    [code |-> code, body |-> [error |-> [text |-> text, detail |-> ""]]]

\* The responses the handler builds; body holds exactly the JSON keys sent.
NoResponse == [code |-> 0, body |-> <<>>]
ErrorResponse(code, text, detail) ==
    [code |-> code, body |-> [error |-> [text |-> text, detail |-> detail]]]
\* Flask's own answer to an exception that leaves the view function
UnhandledResponse == [code |-> 500, body |-> <<>>]
CompletedResponse(data) ==
    [code |-> 200,
     body |-> [attendant_id |-> data.attendant_id[1],
               pixeon_id |-> data.pixeon_id[1],
               status |-> "Concluido",
               message |-> "Nenhum exame selecionado foi encontrado no documento."]]
SuccessResponse(data, linhas) ==
    [code |-> 200,
     body |-> [attendant_id |-> data.attendant_id[1],
               pixeon_id |-> data.pixeon_id[1],
               status |-> "Sucesso",
               resultado_mnemonicos |-> linhas]]

\* Lines 147-169 as one outcome: the response sent (code 0: none, go on)
\* and the decoded image handed to the pipeline.
ParseRequest(data) ==
    IF IsEmptyJson(data) THEN
        [resp |-> ErrorResponse(400, "json", ""), image |-> None]
    ELSE IF ~HasRequiredFields(data) THEN
        [resp |-> ErrorResponse(400, "campos", ""), image |-> None]
    ELSE IF ~HasDocumentFields(data.document[1]) THEN
        [resp |-> ErrorResponse(400, "campos-document", ""), image |-> None]
    ELSE LET dec == b64decode(data.document[1].content[1]) IN
         CASE dec.raised = "binascii.Error" ->
                [resp |-> ErrorResponse(400, "base64", dec.raised), image |-> None]
           [] dec.raised = "ValueError" ->
                [resp |-> UnhandledResponse, image |-> None]
           [] OTHER ->
                [resp |-> NoResponse,
                 image |-> Some([image_bytes |-> dec.bytes,
                                 content_type |-> ContentTypeOf(data.document[1].type[1])])]

---------------------------------------------------------------------------
(* Page geometry returned by LayoutSource (prebuilt-layout, line 61).      *)
(* polygon[0], polygon[1] of the source are polygon[1], polygon[2] here.   *)

MarkXs == {0, 100}
MarkYs == {100}
MarkStates == {"selected", "unselected"}
LineXs == {0, 100}
LineYs == {100, 110, 120}
LineContents == {"", "A", "B"}
Widths == {200}

Marks == [polygon : MarkXs \X MarkYs, state : MarkStates]
Lines == [polygon : LineXs \X LineYs, content : LineContents]
PagesUpTo(m, l) ==
    [width : Widths, selection_marks : SeqsUpTo(Marks, m), lines : SeqsUpTo(Lines, l)]

---------------------------------------------------------------------------
(* extrair_exames_do_documento after the OCR call (lines 67-97).           *)

DistYLimit == 20     \* dist_y < 20, line 79
DistXDivisor == 10   \* dist_x / 10, line 81

\* faulty variant of IsSelected: the state of the mark not looked at
IsSelectedAny(mark) == TRUE

\* line 75
IsSelected(mark) == mark.state = "selected"

\* line 78
DistY(mark, line) == Abs(mark.polygon[2] - line.polygon[2])

\* faulty variant of IsCandidate: <= for <
IsCandidateInclusive(mark, line) == DistY(mark, line) <= DistYLimit

\* line 79
IsCandidate(mark, line) == DistY(mark, line) < DistYLimit

\* line 80
DistX(mark, line) == Abs(mark.polygon[1] - line.polygon[1])

\* line 81, scaled by DistXDivisor: dist_y + dist_x / 10
DistTotal(mark, line) == DistXDivisor * DistY(mark, line) + DistX(mark, line)

\* faulty variant of IsCloser: <= for <, the last of several equal scores wins
IsCloserOrEqual(dist, best) == best.linha = 0 \/ dist <= best.menor_distancia

\* line 82: dist_total < menor_distancia, menor_distancia starting at inf
IsCloser(dist, best) == best.linha = 0 \/ dist < best.menor_distancia

\* lines 77-83: the loop over page.lines from index i on; best is
\* [menor_distancia, linha], linha the index of linha_associada, 0 for None
RECURSIVE ScanLines(_, _, _, _)
ScanLines(mark, lines, i, best) ==
    IF i > Len(lines) THEN best
    ELSE IF IsCandidate(mark, lines[i])
            /\ IsCloser(DistTotal(mark, lines[i]), best)
         THEN ScanLines(mark, lines, i + 1,
                        [menor_distancia |-> DistTotal(mark, lines[i]), linha |-> i])
         ELSE ScanLines(mark, lines, i + 1, best)

\* line 76 and the loop: index of linha_associada, 0 when it stays None
LinhaAssociada(mark, lines) ==
    ScanLines(mark, lines, 1, [menor_distancia |-> 0, linha |-> 0]).linha

\* line 84: `if texto_associado and linha_associada` (an empty str is false)
KeepsItem(texto_associado) == texto_associado # ""

\* lines 84-89: the items one selected mark appends
ItemsOfMark(mark, lines) ==
    LET k == LinhaAssociada(mark, lines) IN
    IF k # 0 /\ KeepsItem(lines[k].content)
    THEN << [texto |-> lines[k].content,
             pos_y |-> lines[k].polygon[2],
             pos_x |-> lines[k].polygon[1]] >>
    ELSE <<>>

\* lines 74-89: the loop over page.selection_marks
RECURSIVE AssociateMarks(_, _)
AssociateMarks(marks, lines) ==
    IF marks = <<>> THEN <<>>
    ELSE (IF IsSelected(Head(marks)) THEN ItemsOfMark(Head(marks), lines) ELSE <<>>)
         \o AssociateMarks(Tail(marks), lines)

\* lines 72-89, with the guard of line 73
ItensSelecionados(page) ==
    IF page.selection_marks # <<>> /\ page.lines # <<>>
    THEN AssociateMarks(page.selection_marks, page.lines)
    ELSE <<>>

\* sorted(..., key=pos_y): stable, an item goes after the items with key <= its own
RECURSIVE InsertByPosY(_, _)
InsertByPosY(item, sorted) ==
    IF sorted = <<>> THEN <<item>>
    ELSE IF item.pos_y < Head(sorted).pos_y THEN <<item>> \o sorted
    ELSE <<Head(sorted)>> \o InsertByPosY(item, Tail(sorted))

RECURSIVE SortedByPosY(_)
SortedByPosY(items) ==
    IF items = <<>> THEN <<>>
    ELSE InsertByPosY(items[Len(items)], SortedByPosY(SubSeq(items, 1, Len(items) - 1)))

\* faulty variant of InLeftColumn: <= for <
InLeftColumnInclusive(item, width) == 2 * item.pos_x <= width

\* lines 91-93: pos_x < page.width / 2
InLeftColumn(item, width) == 2 * item.pos_x < width

\* pos_x >= page.width / 2
InRightColumn(item, width) == 2 * item.pos_x >= width

\* line 92
ColunaEsquerda(items, width) ==
    LET left(it) == InLeftColumn(it, width) IN SortedByPosY(SelectSeq(items, left))

\* line 93
ColunaDireita(items, width) ==
    LET right(it) == InRightColumn(it, width) IN SortedByPosY(SelectSeq(items, right))

\* line 94
ExamesOrdenados(items, width) ==
    LET todos == ColunaEsquerda(items, width) \o ColunaDireita(items, width)
    IN [i \in 1..Len(todos) |-> todos[i].texto]

---------------------------------------------------------------------------
(* obter_mnemonicos_com_nlp (lines 100-134) and the shaping of its answer  *)
(* (line 190).                                                             *)

TextChars == {"x", " ", "\n"}
Whitespace == {" ", "\n"}

\* faulty variant of UserPrompt: the exams rendered last to first
UserPromptReversed(lista) ==
    [header |-> "Por favor, forneca os mnemonicos para a seguinte lista de exames:",
     linhas |-> [i \in 1..Len(lista) |-> <<"- ", lista[Len(lista) + 1 - i]>>]]

\* lines 118-119: one "- <exame>" line per exam, in the order of the list
UserPrompt(lista) ==
    [header |-> "Por favor, forneca os mnemonicos para a seguinte lista de exames:",
     linhas |-> [i \in 1..Len(lista) |-> <<"- ", lista[i]>>]]

\* str.strip(): leading and trailing whitespace removed
RECURSIVE LStrip(_)
LStrip(t) == IF t # <<>> /\ Head(t) \in Whitespace THEN LStrip(Tail(t)) ELSE t

RECURSIVE RStrip(_)
RStrip(t) ==
    IF t # <<>> /\ t[Len(t)] \in Whitespace THEN RStrip(SubSeq(t, 1, Len(t) - 1)) ELSE t

Strip(t) == RStrip(LStrip(t))

\* str.split('\n'): the pieces between consecutive newlines, empty ones kept
RECURSIVE SplitFrom(_, _)
SplitFrom(t, piece) ==
    IF t = <<>> THEN <<piece>>
    ELSE IF Head(t) = "\n" THEN <<piece>> \o SplitFrom(Tail(t), <<>>)
    ELSE SplitFrom(Tail(t), Append(piece, Head(t)))

SplitLines(t) == SplitFrom(t, <<>>)

\* faulty variant of ResultadoMnemonicos: split without strip
ResultadoSemStrip(texto) == SplitLines(texto)

\* line 190: resultado_final.strip().split('\n')
ResultadoMnemonicos(texto) == SplitLines(Strip(texto))

---------------------------------------------------------------------------
(* What the two collaborators may answer.                                  *)

OcrErrors == {"ocr: service unavailable"}
NlpErrors == {"nlp: rate limit"}
NoneHasNoStrip == "'NoneType' object has no attribute 'strip'"

\* poller.result(): an exception, or an AnalyzeResult with its pages
LayoutFailure(e) == [raised |-> e, pages |-> <<>>]
LayoutResult(pages) == [raised |-> "", pages |-> pages]

\* chat.completions.create(...).choices[0].message.content: an exception,
\* None, or a str
ResolverAnswers(texts) ==
    {[raised |-> e, content |-> None] : e \in NlpErrors}
        \cup {[raised |-> "", content |-> None]}
        \cup {[raised |-> "", content |-> Some(t)] : t \in texts}

AllPages == PagesUpTo(MaxMarks, MaxLines)
AllResolverAnswers == ResolverAnswers(SeqsUpTo(TextChars, MaxText))

---------------------------------------------------------------------------
(* Fixed inputs used where a specification explores another dimension.     *)

BodyWith(att, pix, typ, content) ==
    [attendant_id |-> att, pixeon_id |-> pix,
     document |-> Some([type |-> typ, content |-> content])]

SampleBodies ==
    { BodyWith(Some("att-1"), Some("pix-1"), Some("png"), Some(<<"A", "B", "A", "A">>)),
      BodyWith(Some("att-2"), Some("pix-1"), Some("pdf"), Some(<<"A", "A", "=", "=">>)),
      BodyWith(Some("att-1"), None, Some("png"), Some(<<"A", "A", "A", "A">>)),
      BodyWith(Some("att-2"), Some("pix-1"), Some("png"), Some(<<"A">>)) }

\* the bodies of the single-request specification: one that passes
\* validation, one that does not
FirstAttendantBodies == {b \in SampleBodies : b.attendant_id = Some("att-1")}

SelectedAt(x, y) == [polygon |-> <<x, y>>, state |-> "selected"]
UnselectedAt(x, y) == [polygon |-> <<x, y>>, state |-> "unselected"]
LineAt(x, y, content) == [polygon |-> <<x, y>>, content |-> content]

SamplePages ==
    { [width |-> 200,
       selection_marks |-> <<SelectedAt(100, 100), SelectedAt(0, 100)>>,
       lines |-> <<LineAt(100, 100, "B"), LineAt(0, 110, "A")>>],
      [width |-> 200,
       selection_marks |-> <<UnselectedAt(0, 100)>>,
       lines |-> <<LineAt(0, 100, "A")>>] }

SampleResolverAnswers == ResolverAnswers({<<"x", "\n", "x">>})

---------------------------------------------------------------------------
(* State.                                                                  *)

\* lines 18-25
LoadedConfig ==
    [doc_intel_endpoint |-> "DOC_INTEL_ENDPOINT", doc_intel_key |-> "DOC_INTEL_KEY",
     openai_endpoint |-> "OPENAI_ENDPOINT", openai_key |-> "OPENAI_KEY",
     openai_api_version |-> "OPENAI_API_VERSION", openai_deployment |-> "gpt-4o"]

NoCall == [calls |-> 0, request |-> None, raised |-> ""]

InitWith(reqs, bodies) ==
    /\ config = LoadedConfig
    /\ pc = [r \in reqs |-> "recv"]
    /\ body \in [reqs -> bodies]
    /\ image = [r \in reqs |-> None]
    /\ ocr = [r \in reqs |-> NoCall]
    /\ frame = [r \in reqs |-> None]
    /\ lista_de_exames = [r \in reqs |-> <<>>]
    /\ nlp = [r \in reqs |-> NoCall]
    /\ resultado_final = [r \in reqs |-> None]
    /\ resp = [r \in reqs |-> NoResponse]

Requests == DOMAIN pc

\* faulty variant of OwnExams: one module-level list shared by all requests
SharedExams(r) == lista_de_exames[CHOOSE q \in Requests : \A o \in Requests : q <= o]

\* the handler's own local lista_de_exames (line 173), read at lines 175, 183
OwnExams(r) == lista_de_exames[r]

\* faulty variant of NoExams: testing for None, which an empty list is not
NoExamsIsNone(lista) == FALSE

\* line 175: `not lista_de_exames`
NoExams(lista) == lista = <<>>

---------------------------------------------------------------------------
(* processar_documento_endpoint, one action per stretch of the handler     *)
(* between two external calls.                                             *)

\* lines 147-169: parse, validate, decode
Receive(r) ==
    /\ pc[r] = "recv"
    /\ LET out == ParseRequest(body[r]) IN
       IF out.resp.code # 0
       THEN /\ resp' = [resp EXCEPT ![r] = out.resp]
            /\ pc' = [pc EXCEPT ![r] = "done"]
            /\ image' = image
       ELSE /\ image' = [image EXCEPT ![r] = out.image]
            /\ pc' = [pc EXCEPT ![r] = "decoded"]
            /\ resp' = resp
    /\ UNCHANGED <<config, body, ocr, frame, lista_de_exames, nlp, resultado_final>>

\* what line 60-61 sends to LayoutSource
OcrRequest(r) ==
    [endpoint |-> config.doc_intel_endpoint, key |-> config.doc_intel_key,
     model_id |-> "prebuilt-layout", body |-> image[r][1].image_bytes,
     content_type |-> image[r][1].content_type]

\* locals of extrair_exames_do_documento when it returns: at line 69 (no
\* page, nothing else bound yet) or at line 97
FrameOf(pages) ==
    IF pages = <<>>
    THEN [pages |-> pages, itens_selecionados |-> <<>>, coluna_esquerda |-> <<>>,
          coluna_direita |-> <<>>, retorno |-> <<>>]
    ELSE LET page == pages[1]
             itens == ItensSelecionados(page)
         IN [pages |-> pages,
             itens_selecionados |-> itens,
             coluna_esquerda |-> ColunaEsquerda(itens, page.width),
             coluna_direita |-> ColunaDireita(itens, page.width),
             retorno |-> ExamesOrdenados(itens, page.width)]

\* line 173, the call: extrair_exames_do_documento(image_bytes, content_type)
\* up to its return statement, with the handler's except of lines 193-195
\* when the OCR call raises
OcrReturns(r, res) ==
    /\ ocr' = [ocr EXCEPT ![r] = [calls |-> @.calls + 1,
                                  request |-> Some(OcrRequest(r)),
                                  raised |-> res.raised]]
    /\ IF res.raised # ""
       THEN /\ resp' = [resp EXCEPT ![r] = ErrorResponse(500, "ia", res.raised)]
            /\ pc' = [pc EXCEPT ![r] = "done"]
            /\ frame' = frame
       ELSE /\ frame' = [frame EXCEPT ![r] = Some(FrameOf(res.pages))]
            /\ pc' = [pc EXCEPT ![r] = "extracted"]
            /\ resp' = resp
    /\ UNCHANGED <<config, body, image, lista_de_exames, nlp, resultado_final>>

OcrCall(r, pages) ==
    /\ pc[r] = "decoded"
    /\ \/ \E e \in OcrErrors : OcrReturns(r, LayoutFailure(e))
       \/ OcrReturns(r, LayoutResult(<<>>))
       \/ \E page \in pages : OcrReturns(r, LayoutResult(<<page>>))

\* line 173, the assignment: the returned list becomes lista_de_exames and
\* the callee's locals are gone
ReturnExames(r) ==
    /\ pc[r] = "extracted"
    /\ lista_de_exames' = [lista_de_exames EXCEPT ![r] = frame[r][1].retorno]
    /\ frame' = [frame EXCEPT ![r] = None]
    /\ pc' = [pc EXCEPT ![r] = "ocr_done"]
    /\ UNCHANGED <<config, body, image, ocr, nlp, resultado_final, resp>>

\* lines 175-181: nothing selected, no resolver call
ShortCircuit(r) ==
    /\ pc[r] = "ocr_done"
    /\ NoExams(OwnExams(r))
    /\ resp' = [resp EXCEPT ![r] = CompletedResponse(body[r])]
    /\ pc' = [pc EXCEPT ![r] = "done"]
    /\ UNCHANGED <<config, body, image, ocr, frame, lista_de_exames, nlp,
                   resultado_final>>

\* what lines 118-128 send to MnemonicResolver
NlpRequest(lista) ==
    [endpoint |-> config.openai_endpoint, key |-> config.openai_key,
     api_version |-> config.openai_api_version, model |-> config.openai_deployment,
     user_prompt |-> UserPrompt(lista)]

\* line 183: obter_mnemonicos_com_nlp(lista_de_exames), with the handler's
\* except of lines 193-195 when the call raises
NlpCall(r, answers) ==
    /\ pc[r] = "ocr_done"
    /\ ~NoExams(OwnExams(r))
    /\ \E ans \in answers :
        /\ nlp' = [nlp EXCEPT ![r] = [calls |-> @.calls + 1,
                                      request |-> Some(NlpRequest(OwnExams(r))),
                                      raised |-> ans.raised]]
        /\ IF ans.raised # ""
           THEN /\ resp' = [resp EXCEPT ![r] = ErrorResponse(500, "ia", ans.raised)]
                /\ pc' = [pc EXCEPT ![r] = "done"]
                /\ resultado_final' = resultado_final
           ELSE /\ resultado_final' = [resultado_final EXCEPT ![r] = Some(ans.content)]
                /\ pc' = [pc EXCEPT ![r] = "nlp_done"]
                /\ resp' = resp
    /\ UNCHANGED <<config, body, image, ocr, frame, lista_de_exames>>

\* lines 186-195: shape the answer; None.strip() raises AttributeError,
\* caught at line 193
Respond(r) ==
    /\ pc[r] = "nlp_done"
    /\ LET content == resultado_final[r][1] IN
       resp' = [resp EXCEPT ![r] =
                   IF content = None
                   THEN ErrorResponse(500, "ia", NoneHasNoStrip)
                   ELSE SuccessResponse(body[r], ResultadoMnemonicos(content[1]))]
    /\ pc' = [pc EXCEPT ![r] = "done"]
    /\ UNCHANGED <<config, body, image, ocr, frame, lista_de_exames, nlp,
                   resultado_final>>

---------------------------------------------------------------------------
(* Specifications.                                                         *)

\* One request; every page geometry and every resolver answer within the bounds.
Init == InitWith({1}, FirstAttendantBodies)
Next ==
    \/ \E r \in Requests : Receive(r)
    \/ \E r \in Requests : OcrCall(r, AllPages)
    \/ \E r \in Requests : ReturnExames(r)
    \/ \E r \in Requests : ShortCircuit(r)
    \/ \E r \in Requests : NlpCall(r, AllResolverAnswers)
    \/ \E r \in Requests : Respond(r)
Spec == Init /\ [][Next]_vars

\* One request; every body within the bounds.
InitRequest == InitWith({1}, Bodies)
NextSampled ==
    \/ \E r \in Requests : Receive(r)
    \/ \E r \in Requests : OcrCall(r, SamplePages)
    \/ \E r \in Requests : ReturnExames(r)
    \/ \E r \in Requests : ShortCircuit(r)
    \/ \E r \in Requests : NlpCall(r, SampleResolverAnswers)
    \/ \E r \in Requests : Respond(r)
SpecRequest == InitRequest /\ [][NextSampled]_vars

\* NumRequests requests handled concurrently, their steps interleaved.
InitConcurrent == InitWith(1..NumRequests, SampleBodies)
SpecConcurrent == InitConcurrent /\ [][NextSampled]_vars

---------------------------------------------------------------------------
(* Vocabulary of the properties.                                           *)

Extracted(r) == pc[r] = "extracted"
HasPage(r) == Extracted(r) /\ frame[r][1].pages # <<>>
PageOf(r) == frame[r][1].pages[1]
ItensOf(r) == frame[r][1].itens_selecionados
RetornoOf(r) == frame[r][1].retorno
Sent(r) == pc[r] = "done"
Keys(r) == DOMAIN resp[r].body
IsCompleted(r) ==
    Sent(r) /\ resp[r].code = 200 /\ "status" \in Keys(r)
        /\ resp[r].body.status = "Concluido"
IsSuccess(r) ==
    Sent(r) /\ resp[r].code = 200 /\ "status" \in Keys(r)
        /\ resp[r].body.status = "Sucesso"

\* the association rule as the specification words it
WithinThreshold(mark, line) == Abs(mark.polygon[2] - line.polygon[2]) < 20
Score10(mark, line) ==
    10 * Abs(mark.polygon[2] - line.polygon[2]) + Abs(mark.polygon[1] - line.polygon[1])
CandidatesOf(mark, lines) == {k \in 1..Len(lines) : WithinThreshold(mark, lines[k])}
IsWinner(k, mark, lines) ==
    LET candidates == CandidatesOf(mark, lines)
        score == Score10(mark, lines[k])
    IN /\ k \in candidates
       /\ \A j \in candidates :
             /\ score <= Score10(mark, lines[j])
             /\ Score10(mark, lines[j]) = score => k <= j
ItemAt(line) ==
    [texto |-> line.content, pos_y |-> line.polygon[2], pos_x |-> line.polygon[1]]
Produces(mark, lines) ==
    /\ mark.state = "selected"
    /\ \E k \in 1..Len(lines) : IsWinner(k, mark, lines) /\ lines[k].content # ""
ProducingMarks(page) ==
    LET produces(m) == Produces(m, page.lines) IN SelectSeq(page.selection_marks, produces)

Perms(n) == {f \in [1..n -> 1..n] : \A i, j \in 1..n : i # j => f[i] # f[j]}

---------------------------------------------------------------------------
(* C1.  A validated request whose extracted ExamList is empty is answered  *)
(* 200 with status "Concluido" and a message, without resultado_mnemonicos *)
(* and without any MnemonicResolver call; and the list is empty whenever   *)
(* LayoutSource returned no page, no mark is selected, or no selected mark *)
(* has a text line within the threshold.                                   *)

NothingToExtract(r) ==
    \/ frame[r][1].pages = <<>>
    \/ \A i \in 1..Len(PageOf(r).selection_marks) :
          \/ PageOf(r).selection_marks[i].state # "selected"
          \/ CandidatesOf(PageOf(r).selection_marks[i], PageOf(r).lines) = {}

EmptyListReturned(r) ==
    \/ Extracted(r) /\ RetornoOf(r) = <<>>
    \/ /\ pc[r] \in {"ocr_done", "nlp_done", "done"}
       /\ ocr[r].calls > 0 /\ ocr[r].raised = ""
       /\ lista_de_exames[r] = <<>>

C1_EmptyListShortCircuits ==
    \A r \in Requests :
        /\ Extracted(r) /\ NothingToExtract(r) => RetornoOf(r) = <<>>
        /\ EmptyListReturned(r) =>
              /\ nlp[r].calls = 0
              /\ pc[r] # "nlp_done"
              /\ Sent(r) =>
                    /\ resp[r].code = 200
                    /\ Keys(r) = {"attendant_id", "pixeon_id", "status", "message"}
                    /\ resp[r].body.status = "Concluido"
                    /\ resp[r].body.attendant_id = body[r].attendant_id[1]
                    /\ resp[r].body.pixeon_id = body[r].pixeon_id[1]

\* reached: the short-circuit answer sent after a LayoutSource call that
\* succeeded and left nothing to resolve
C1_Witness ==
    \E r \in Requests :
        IsCompleted(r) /\ ocr[r].calls = 1 /\ nlp[r].calls = 0
            /\ lista_de_exames[r] = <<>>

---------------------------------------------------------------------------
(* C2.  When the LayoutSource call or the MnemonicResolver call fails, the *)
(* response is 500, its body has only the key error, and the error holds   *)
(* the failure's message; no 500 carries resultado_mnemonicos, and no 200  *)
(* follows a failed stage.                                                 *)

C2_StageFailureIs500 ==
    \A r \in Requests :
        /\ ocr[r].raised # "" =>
              /\ Sent(r) /\ resp[r].code = 500 /\ Keys(r) = {"error"}
              /\ resp[r].body.error.detail = ocr[r].raised
              /\ nlp[r].calls = 0
        /\ nlp[r].raised # "" =>
              /\ Sent(r) /\ resp[r].code = 500 /\ Keys(r) = {"error"}
              /\ resp[r].body.error.detail = nlp[r].raised
        /\ resp[r].code = 500 => "resultado_mnemonicos" \notin Keys(r)

\* reached: a resolver failure after a successful extraction
C2_Witness ==
    \E r \in Requests :
        nlp[r].raised # "" /\ ocr[r].calls = 1 /\ ocr[r].raised = "" /\ Sent(r)

---------------------------------------------------------------------------
(* C3.  A request in which attendant_id, pixeon_id, document,              *)
(* document.type or document.content is missing, or whose document.content *)
(* is not valid base64, is answered 400, and neither collaborator is       *)
(* called for it.                                                          *)

\* RFC 4648: alphabet characters in groups of four, the last group padded
\* with one or two "="
IsValidBase64(s) ==
    /\ Len(s) % 4 = 0
    /\ \A i \in 1..Len(s) :
          \/ s[i] \in B64Alphabet
          \/ s[i] = B64Pad /\ i > Len(s) - 2 /\ \A j \in i..Len(s) : s[j] = B64Pad

IsMalformed(data) ==
    \/ data.attendant_id = None
    \/ data.pixeon_id = None
    \/ data.document = None
    \/ data.document # None /\ data.document[1].type = None
    \/ data.document # None /\ data.document[1].content = None
    \/ /\ data.document # None /\ data.document[1].content # None
       /\ ~IsValidBase64(data.document[1].content[1])

C3_MalformedIs400 ==
    \A r \in Requests :
        IsMalformed(body[r]) =>
            /\ Sent(r) => resp[r].code = 400
            /\ ocr[r].calls = 0
            /\ nlp[r].calls = 0

---------------------------------------------------------------------------
(* C4.  The returned ExamList is the texts of the items with               *)
(* pos_x < page_width / 2 in ascending pos_y order, followed by the texts  *)
(* of the items with pos_x >= page_width / 2 in ascending pos_y order: a   *)
(* permutation of the items' texts in which no right-column item precedes  *)
(* a left-column item; and every item carries the text and the coordinates *)
(* of a text line of the page.                                             *)

IsLeft(item, width) == 2 * item.pos_x < width

IsColumnMajor(order, items, width) ==
    \A i, j \in 1..Len(items) :
        i < j =>
            /\ ~(~IsLeft(items[order[i]], width) /\ IsLeft(items[order[j]], width))
            /\ IsLeft(items[order[i]], width) = IsLeft(items[order[j]], width)
                  => items[order[i]].pos_y <= items[order[j]].pos_y

---------------------------------------------------------------------------
(* C5.  The item of a selected mark has the text and position of a text    *)
(* line with dy < 20 whose score dy + dx / 10 is minimal among the lines    *)
(* with dy < 20, the first such line in iteration order when several share *)
(* the minimal score.                                                      *)

C5_NearestLineFirstOnTies ==
    \A r \in Requests :
        HasPage(r) =>
            LET marks == ProducingMarks(PageOf(r))
                lines == PageOf(r).lines
                itens == ItensOf(r)
            IN /\ Len(itens) = Len(marks)
               /\ \A i \in 1..Len(marks) :
                     \E k \in 1..Len(lines) :
                         /\ IsWinner(k, marks[i], lines)
                         /\ itens[i] = ItemAt(lines[k])

\* reached: a selected mark with two lines of equal minimal score and
\* different texts, the item being the first of them
C5_Witness ==
    \E r \in Requests :
        /\ HasPage(r) /\ Len(ItensOf(r)) = 1
        /\ Len(PageOf(r).selection_marks) = 1
        /\ Len(PageOf(r).lines) = 2
        /\ LET mark == PageOf(r).selection_marks[1]
               lines == PageOf(r).lines
           IN /\ CandidatesOf(mark, lines) = {1, 2}
              /\ Score10(mark, lines[1]) = Score10(mark, lines[2])
              /\ lines[1].polygon # lines[2].polygon
              /\ lines[1].content # lines[2].content
              /\ lines[2].content # ""
              /\ ItensOf(r)[1] = ItemAt(lines[1])

---------------------------------------------------------------------------
(* C6.  As claimed: the number of items equals the number of selected      *)
(* marks that have at least one text line with |mark.y - line.y| < 20.     *)

C6_OneItemPerMarkInReach ==
    \A r \in Requests :
        HasPage(r) =>
            Len(ItensOf(r)) =
                Cardinality({i \in 1..Len(PageOf(r).selection_marks) :
                    /\ PageOf(r).selection_marks[i].state = "selected"
                    /\ CandidatesOf(PageOf(r).selection_marks[i], PageOf(r).lines) # {}})

(* C6, amended.  The number of items equals the number of selected marks   *)
(* whose chosen line (minimal score within |dy| < 20, first on ties) has a *)
(* non-empty text: each such mark yields one item, also when several marks *)
(* choose the same line; a selected mark with every line at vertical       *)
(* distance >= 20, or whose chosen line has an empty text, yields none.    *)

C6_OneItemPerMarkWithText ==
    \A r \in Requests :
        HasPage(r) =>
            LET marks == PageOf(r).selection_marks
                lines == PageOf(r).lines
                itens == ItensOf(r)
            IN /\ Len(itens) =
                     Cardinality({i \in 1..Len(marks) : Produces(marks[i], lines)})
               /\ \A i \in 1..Len(itens) : itens[i].texto # ""

\* reached: two selected marks that chose the same line, two equal items
C6_Witness ==
    \E r \in Requests :
        /\ HasPage(r) /\ Len(PageOf(r).lines) = 1
        /\ Len(PageOf(r).selection_marks) = 2
        /\ PageOf(r).selection_marks[1] # PageOf(r).selection_marks[2]
        /\ Len(ItensOf(r)) = 2
        /\ ItensOf(r)[1] = ItensOf(r)[2]

---------------------------------------------------------------------------
(* C7.  As claimed: when the ExamList is not empty and the resolver        *)
(* returns a text, the response is 200 "Sucesso" and resultado_mnemonicos  *)
(* is that raw text split at its newlines, nothing added, removed or       *)
(* altered: joined by newlines again, the lines give back the raw text.    *)

RECURSIVE JoinLines(_)
JoinLines(linhas) ==
    IF Len(linhas) = 0 THEN <<>>
    ELSE IF Len(linhas) = 1 THEN linhas[1]
    ELSE linhas[1] \o <<"\n">> \o JoinLines(Tail(linhas))

NoNewlineInside(linhas) ==
    \A i \in 1..Len(linhas) : \A j \in 1..Len(linhas[i]) : linhas[i][j] # "\n"

ResolverReturnedText(r) ==
    /\ Sent(r) /\ nlp[r].calls = 1 /\ nlp[r].raised = ""
    /\ lista_de_exames[r] # <<>>
    /\ resultado_final[r] # None /\ resultado_final[r][1] # None

RawText(r) == resultado_final[r][1][1]

IsBlank(t) == \A i \in 1..Len(t) : t[i] \in {" ", "\n"}

C7_RawTextSplit ==
    \A r \in Requests :
        ResolverReturnedText(r) =>
            /\ IsSuccess(r)
            /\ Keys(r) = {"attendant_id", "pixeon_id", "status", "resultado_mnemonicos"}
            /\ Len(resp[r].body.resultado_mnemonicos) >= 1
            /\ NoNewlineInside(resp[r].body.resultado_mnemonicos)
            /\ JoinLines(resp[r].body.resultado_mnemonicos) = RawText(r)

(* C7, amended.  When the ExamList is not empty and the resolver returns a *)
(* text, the response is 200 "Sucesso" and resultado_mnemonicos is that    *)
(* text with its leading and trailing whitespace removed, split at its     *)
(* newlines: joined by newlines again, the lines give the raw text between *)
(* its first and its last non-whitespace character.                        *)

C7_StrippedTextSplit ==
    \A r \in Requests :
        ResolverReturnedText(r) =>
            /\ IsSuccess(r)
            /\ Keys(r) = {"attendant_id", "pixeon_id", "status", "resultado_mnemonicos"}
            /\ resp[r].body.attendant_id = body[r].attendant_id[1]
            /\ resp[r].body.pixeon_id = body[r].pixeon_id[1]
            /\ Len(resp[r].body.resultado_mnemonicos) >= 1
            /\ NoNewlineInside(resp[r].body.resultado_mnemonicos)
            /\ LET core == JoinLines(resp[r].body.resultado_mnemonicos)
                   raw == RawText(r)
               IN \E a \in 0..Len(raw) : \E b \in a..Len(raw) :
                     /\ core = SubSeq(raw, a + 1, b)
                     /\ IsBlank(SubSeq(raw, 1, a))
                     /\ IsBlank(SubSeq(raw, b + 1, Len(raw)))
                     /\ core # <<>> => core[1] \notin {" ", "\n"}
                                          /\ core[Len(core)] \notin {" ", "\n"}

\* reached: an answer with whitespace at both ends and a newline inside
C7_Witness ==
    \E r \in Requests :
        /\ ResolverReturnedText(r) /\ IsSuccess(r)
        /\ RawText(r) = <<" ", "x", "\n">>

---------------------------------------------------------------------------
(* C8.  Within one request LayoutSource is called at most once and         *)
(* MnemonicResolver at most once; MnemonicResolver is called only after    *)
(* LayoutSource succeeded with a non-empty ExamList, and it is sent that   *)
(* list, one line per exam, in the order extraction returned it.           *)

PromptExams(r) ==
    LET linhas == nlp[r].request[1].user_prompt.linhas
    IN [i \in 1..Len(linhas) |-> linhas[i][2]]

CallsInOrder ==
    \A r \in Requests :
        /\ ocr[r].calls <= 1
        /\ nlp[r].calls <= 1
        /\ nlp[r].calls = 1 =>
              /\ ocr[r].calls = 1 /\ ocr[r].raised = ""
              /\ lista_de_exames[r] # <<>>
              /\ PromptExams(r) = lista_de_exames[r]
              /\ \A i \in 1..Len(lista_de_exames[r]) :
                    nlp[r].request[1].user_prompt.linhas[i][1] = "- "

ListKeptAsReturned ==
    \A r \in Requests :
        /\ Extracted(r) /\ pc'[r] # "extracted" => lista_de_exames'[r] = RetornoOf(r)
        /\ ~Extracted(r) => lista_de_exames'[r] = lista_de_exames[r]
        /\ ocr'[r].calls >= ocr[r].calls
        /\ nlp'[r].calls >= nlp[r].calls

C8_SingleCallsOrderedList == []CallsInOrder /\ [][ListKeptAsReturned]_vars

\* reached: the resolver called with a list of two different exams
C8_Witness ==
    \E r \in Requests :
        /\ nlp[r].calls = 1 /\ Len(lista_de_exames[r]) = 2
        /\ lista_de_exames[r][1] # lista_de_exames[r][2]

---------------------------------------------------------------------------
(* C9.  Marks whose state is not "selected" do not participate: the page   *)
(* and the same page with every unselected mark removed give the same      *)
(* ExamList, so two pages that differ only in unselected marks do.         *)

OnlySelectedMarks(page) ==
    LET selected(m) == m.state = "selected"
    IN [page EXCEPT !.selection_marks = SelectSeq(@, selected)]

C9_UnselectedMarksIgnored ==
    \A r \in Requests :
        HasPage(r) =>
            RetornoOf(r) = FrameOf(<<OnlySelectedMarks(PageOf(r))>>).retorno

\* reached: an unselected mark next to a line with a text, beside a
\* selected mark that produced an item
C9_Witness ==
    \E r \in Requests :
        /\ HasPage(r) /\ Len(RetornoOf(r)) = 1
        /\ \E i \in 1..Len(PageOf(r).selection_marks) :
              LET mark == PageOf(r).selection_marks[i] IN
              /\ mark.state = "unselected"
              /\ Produces([mark EXCEPT !.state = "selected"], PageOf(r).lines)

---------------------------------------------------------------------------
(* C10.  Under any interleaving of concurrently handled requests, the      *)
(* response of a request is determined by its own body and the results of  *)
(* its own collaborator calls; the configuration loaded at start-up is     *)
(* never written, and a step of one request leaves the state of every      *)
(* other request as it was.                                                *)

ExpectedResponse(r) ==
    LET parsed == ParseRequest(body[r]) IN
    IF parsed.resp.code # 0 THEN parsed.resp
    ELSE IF ocr[r].calls = 0 THEN NoResponse
    ELSE IF ocr[r].raised # "" THEN ErrorResponse(500, "ia", ocr[r].raised)
    ELSE IF lista_de_exames[r] = <<>> THEN CompletedResponse(body[r])
    ELSE IF nlp[r].calls = 0 THEN NoResponse
    ELSE IF nlp[r].raised # "" THEN ErrorResponse(500, "ia", nlp[r].raised)
    ELSE IF resultado_final[r] = None THEN NoResponse
    ELSE IF resultado_final[r][1] = None THEN ErrorResponse(500, "ia", NoneHasNoStrip)
    ELSE SuccessResponse(body[r], ResultadoMnemonicos(resultado_final[r][1][1]))

OwnInputsDecide ==
    /\ config = LoadedConfig
    /\ \A r \in Requests :
          /\ Sent(r) => resp[r] = ExpectedResponse(r)
          /\ ~Sent(r) => resp[r] = NoResponse
          /\ nlp[r].calls = 1 => PromptExams(r) = lista_de_exames[r]

StateOf(r) ==
    <<pc[r], body[r], image[r], ocr[r], frame[r], lista_de_exames[r], nlp[r],
      resultado_final[r], resp[r]>>

StepOfOneRequest ==
    /\ config' = config
    /\ \E r \in Requests : \A q \in Requests \ {r} : StateOf(q)' = StateOf(q)

C10_RequestsIsolated == []OwnInputsDecide /\ [][StepOfOneRequest]_vars

\* reached: one request answered "Sucesso" while another, with another
\* body, is between its two stages with nothing to resolve
C10_Witness ==
    \E r, q \in Requests :
        /\ r # q /\ body[r] # body[q]
        /\ IsSuccess(r)
        /\ Extracted(q) /\ RetornoOf(q) = <<>>

=============================================================================
